---- MODULE Spec2Model ----
(***************************************************************************)
(* Model of src/main.rs: the molecular-geometry program (main, the Ion     *)
(* primitives, all_bond_lengths, bond_angles, out_of_plane_angle).         *)
(*                                                                         *)
(* Indices are 0-based as in the Rust code; At(s, i) reads s[i].           *)
(*                                                                         *)
(* f64 values are kept as symbolic terms [t, a, b, c]:                     *)
(*   t = "sqrt"  the value sqrt(a); the literal 0. is sqrt(0)              *)
(*   t = "acos"  the value acos(a / (sqrt(b) * sqrt(c))), b > 0, c > 0     *)
(*   t = "quot"  the value a / sqrt(b), b > 0                              *)
(*   t = "nan"   NaN                                                       *)
(* Coordinates are small integers, so sums, differences and products of    *)
(* coordinates are exact; only sqrt, division, acos and sin round.         *)
(***************************************************************************)
EXTENDS Integers, Sequences, FiniteSets, TLC

\* ---- bounds of the model ----
MaxFiles == 2
MaxRecords == 3
MaxLen == 4

\* ---- data model ----
Ion(zv, px, py, pz) == [z_val |-> zv, x |-> px, y |-> py, z |-> pz]

\* Atom positions used by the library specification: three collinear points
\* on the x axis, and two points off it that make a non-coplanar quadruple.
Atoms ==
  { Ion(8, 0, 0, 0), Ion(1, 1, 0, 0), Ion(1, 2, 0, 0),
    Ion(1, 0, 1, 0), Ion(1, 0, 0, 1) }

\* Atom positions that input files of the program specification may hold.
FileAtoms == { Ion(8, 0, 0, 0), Ion(1, 1, 0, 0) }

At(s, idx) == s[idx + 1]

RECURSIVE SeqsUpTo(_, _)
SeqsUpTo(S, n) ==
  IF n = 0 THEN { <<>> }
  ELSE LET shorter == SeqsUpTo(S, n - 1)
       IN shorter \cup { Append(s, e) : s \in { q \in shorter : Len(q) = n - 1 }, e \in S }

\* ---- f64 terms ----
F64(tag, va, vb, vc) == [t |-> tag, a |-> va, b |-> vb, c |-> vc]
NaN == F64("nan", 0, 0, 0)
FSqrt(n) == F64("sqrt", n, 0, 0)
F0 == FSqrt(0)
IsNaN(v) == v.t = "nan"
IsExactSquare(n) == \E r \in 0..n : r * r = n

\* io::Result values
Ok(v) == [called |-> TRUE, ok |-> TRUE, val |-> v, msg |-> ""]
Err(m) == [called |-> TRUE, ok |-> FALSE, val |-> <<>>, msg |-> m]
NotCalled == [called |-> FALSE, ok |-> FALSE, val |-> <<>>, msg |-> ""]

\* ---- Ion primitives ----
bond_length(self, other) ==
  FSqrt( (self.x - other.x) * (self.x - other.x)
       + (self.y - other.y) * (self.y - other.y)
       + (self.z - other.z) * (self.z - other.z) )

bond_vector(self, other) ==
  << other.x - self.x, other.y - self.y, other.z - self.z >>

\* (num / (la * lb)).acos() for an exact numerator and two sqrt terms:
\* a zero length gives 0/0 = NaN or x/0 = inf, and acos of either is NaN.
FAcosOfQuotient(num, la, lb) ==
  IF la.a = 0 \/ lb.a = 0 THEN NaN
  ELSE F64("acos", num, la.a, lb.a)

bond_angle(ioni, ionj, ionk) ==
  LET e_ji == bond_vector(ionj, ioni)
      e_jk == bond_vector(ionj, ionk)
  IN FAcosOfQuotient(e_ji[1] * e_jk[1] + e_ji[2] * e_jk[2] + e_ji[3] * e_jk[3],
                     bond_length(ionj, ioni), bond_length(ionj, ionk))

\* ---- all_bond_lengths ----
\* LengthsBody without the store into the upper triangle
LengthsBody_NoMirror(mol, lengths, i, j) ==
  IF i # j
  THEN LET l == bond_length(At(mol, i), At(mol, j))
       IN [lengths EXCEPT ![i + 1][j + 1] = l]
  ELSE lengths

LengthsBody(mol, lengths, i, j) ==
  IF i # j
  THEN LET l == bond_length(At(mol, i), At(mol, j))
       IN [lengths EXCEPT ![i + 1][j + 1] = l, ![j + 1][i + 1] = l]
  ELSE lengths

RECURSIVE LengthsLoop(_, _, _, _)
LengthsLoop(mol, lengths, i, j) ==
  IF i >= Len(mol) THEN lengths
  ELSE IF j >= i THEN LengthsLoop(mol, lengths, i + 1, 0)
  ELSE LengthsLoop(mol, LengthsBody(mol, lengths, i, j), i, j + 1)

LengthsTooFew(len) == len <= 1

all_bond_lengths(mol) ==
  IF LengthsTooFew(Len(mol))
  THEN Err("No bonds in molecule")
  ELSE Ok(LengthsLoop(mol, [r \in 1..Len(mol) |-> [c \in 1..Len(mol) |-> F0]], 0, 0))

\* ---- out_of_plane_angle ----
\* The set of f64 values the expression of lines 99-109 can evaluate to.  It
\* is a singleton except where the in-plane cosine is +-1 mathematically and
\* the rounding of sqrt(b) * sqrt(c) decides whether acos() sees exactly 1.
out_of_plane_angle(ioni, ionj, ionk, ionl) ==
  LET phi_jkl == bond_angle(ionj, ionk, ionl)
      r_kj == bond_vector(ionk, ionj)
      r_kl == bond_vector(ionk, ionl)
      r_ki == bond_vector(ionk, ioni)
      l_kj == bond_length(ionk, ionj)
      l_kl == bond_length(ionk, ionl)
      l_ki == bond_length(ionk, ioni)
      scalar_triple == r_ki[1] * (r_kj[2] * r_kl[3] - r_kl[2] * r_kj[3])
                     - r_ki[2] * (r_kj[1] * r_kl[3] - r_kl[1] * r_kj[3])
                     + r_ki[3] * (r_kj[1] * r_kl[2] - r_kl[1] * r_kj[2])
      \* (l_kj * l_kl * sin(phi))^2, exact
      sinsq == l_kj.a * l_kl.a - phi_jkl.a * phi_jkl.a
  IN IF IsNaN(phi_jkl)
     THEN { NaN }              \* sin(NaN) = NaN, NaN denominator
     ELSE IF l_ki.a = 0
     THEN { NaN }              \* r_ki = 0: 0 / 0, or 0 / NaN
     ELSE IF sinsq = 0         \* r_kj parallel to r_kl: scalar_triple = 0
     THEN IF IsExactSquare(l_kj.a) /\ IsExactSquare(l_kl.a)
          THEN IF phi_jkl.a > 0
               THEN { NaN }    \* acos(1) = 0, sin(0) = 0: 0 / 0
               ELSE { F0 }     \* acos(-1) = pi, sin(pi) = 1.2e-16: 0 / tiny
          ELSE { NaN, F0 }     \* cosine rounds to 1, above 1 or below 1
     ELSE IF scalar_triple = 0 THEN { F0 }
     ELSE { F64("quot", scalar_triple, l_ki.a * sinsq, 0) }

\* ---- bond_angles ----
\* AnglesTooFew with the threshold of all_bond_lengths
AnglesTooFew_Threshold1(len) == len <= 1

AnglesTooFew(len) == len <= 2

\* NUniques taking n as len-1, as the comment of line 141 words it
NUniques_LenMinus1(len) ==
  (3 * (len - 1) * (len - 1) + (len - 1) * (len - 1) * (len - 1) + 2 * (len - 1)) \div 6

NUniques(len) ==
  (3 * (len - 2) * (len - 2) + (len - 2) * (len - 2) * (len - 2) + 2 * (len - 2)) \div 6

Placeholder == << 0, 0, 0, F0 >>

\* AngleRecord with the angle taken at atom i instead of atom j
AngleRecord_VertexI(mol, i, j, k) ==
  << k, j, i, bond_angle(At(mol, j), At(mol, i), At(mol, k)) >>

\* AngleRecord with the indices stored in loop-variable order
AngleRecord_IndicesIJK(mol, i, j, k) ==
  << i, j, k, bond_angle(At(mol, i), At(mol, j), At(mol, k)) >>

AngleRecord(mol, i, j, k) ==
  << k, j, i, bond_angle(At(mol, i), At(mol, j), At(mol, k)) >>

\* The three nested range loops: the next (i, j, k) for which the body of the
\* innermost loop runs, or done when the outer loop is exhausted.
RECURSIVE LoopI(_, _)
RECURSIVE LoopJ(_, _, _)
LoopK(i, j, k, n) ==
  IF k < j THEN [done |-> FALSE, i |-> i, j |-> j, k |-> k]
  ELSE LoopJ(i, j + 1, n)

LoopJ(i, j, n) ==
  IF j < i THEN LoopK(i, j, 0, n) ELSE LoopI(i + 1, n)

LoopI(i, n) ==
  IF i < n THEN LoopJ(i, 0, n) ELSE [done |-> TRUE, i |-> 0, j |-> 0, k |-> 0]

\* ---- input files ----
\* A line is its sequence of whitespace-separated numeric tokens.
RecordLine(ion) == << ion.z_val, ion.x, ion.y, ion.z >>
ShortLine == << 1, 0, 0 >>
BlankLine == << >>
HeaderLine(n) == << n >>

RecordLines == { RecordLine(a) : a \in FileAtoms } \cup { ShortLine }
HeaderLines == { HeaderLine(n) : n \in 0..MaxRecords } \cup { BlankLine }

\* A line of a file on disk: its tokens, or bytes that are not valid UTF-8.
Text(tokens) == [utf8 |-> TRUE, tokens |-> tokens]
Undecodable == [utf8 |-> FALSE, tokens |-> << >>]

\* The files an argument can name: one that cannot be opened, an empty one,
\* and a first line followed by up to MaxRecords further lines.
Files ==
  { [opens |-> FALSE, raw |-> << >>], [opens |-> TRUE, raw |-> << >>] }
  \cup { [opens |-> TRUE, raw |-> << h >> \o recs] :
           h \in { Text(t) : t \in HeaderLines } \cup { Undecodable },
           recs \in SeqsUpTo({ Text(t) : t \in RecordLines } \cup { Undecodable },
                             MaxRecords) }

\* File::open(..)?, then lines().filter_map(io::Result::ok).collect():
\* a line that fails to decode is dropped, the lines after it are kept.
file_to_vec(file) ==
  IF ~file.opens THEN Err("open")
  ELSE LET kept == SelectSeq(file.raw, LAMBDA l : l.utf8)
       IN Ok([n \in 1..Len(kept) |-> kept[n].tokens])

\* str::parse::<i32>() of a whole line: one numeric token and nothing else.
ParseHeaderOk(line) == Len(line) = 1
ParseHeader(line) == line[1]

\* split_whitespace() and four next().unwrap().parse().unwrap():
\* needs four tokens, ignores any further ones.
ParseIonOk(line) == Len(line) >= 4
ParseIon(line) == [z_val |-> line[1], x |-> line[2], y |-> line[3], z |-> line[4]]

\* CountMismatch that counts the header line as a record
CountMismatch_WithHeader(lines, natoms) == Len(lines) # natoms

CountMismatch(lines, natoms) == (Len(lines) - 1) # natoms

\* ---- state ----
VARIABLES
  nargs,            \* number of file arguments of the run
  argsLeft,         \* arguments the for loop has not taken yet
  pc,               \* position of the running code
  status,           \* "running", or how the run ended
  lines,            \* main: lines of the current file
  natoms,           \* main: parsed header, -1 before it is parsed
  ions,             \* main: ions of the current file; library: mol
  bond_lengths,     \* result of all_bond_lengths
  n_uniques, angles, angle_index, i, j, k,   \* locals of bond_angles
  bond_angles_res,  \* result of bond_angles
  oop,              \* result of out_of_plane_angle
  stdout            \* blocks printed so far

vars == << nargs, argsLeft, pc, status, lines, natoms, ions, bond_lengths,
           n_uniques, angles, angle_index, i, j, k, bond_angles_res, oop, stdout >>

mainVars == << nargs, argsLeft, lines, natoms, stdout >>
baVars == << n_uniques, angles, angle_index, i, j, k, bond_angles_res >>

Exit(st) == pc' = "exit" /\ status' = st

\* ---- bond_angles, one action per step ----
\* lines 136-144: the length test, the capacity and the preallocation
BondAnglesCall ==
  /\ pc = "ba_call"
  /\ IF AnglesTooFew(Len(ions))
     THEN /\ bond_angles_res' = Err("too few ions for bond angles")
          /\ pc' = "ba_done"
          /\ UNCHANGED << n_uniques, angles, angle_index, i, j, k >>
     ELSE LET first == LoopI(0, Len(ions))
          IN /\ n_uniques' = NUniques(Len(ions))
             /\ angles' = [p \in 1..NUniques(Len(ions)) |-> Placeholder]
             /\ angle_index' = 0
             /\ i' = first.i /\ j' = first.j /\ k' = first.k
             /\ pc' = IF first.done THEN "ba_exit" ELSE "ba_loop"
             /\ UNCHANGED bond_angles_res
  /\ UNCHANGED << mainVars, status, ions, bond_lengths, oop >>

\* lines 148-151: one run of the innermost loop body, then the loop headers
BondAnglesWrite ==
  /\ pc = "ba_loop"
  /\ LET next == LoopK(i, j, k + 1, Len(ions))
     IN IF ~(i = j \/ j = k \/ i = k)
        THEN IF angle_index >= Len(angles)
             THEN /\ Exit("panic_index")
                  /\ UNCHANGED << angles, angle_index, i, j, k >>
             ELSE /\ angles' = [angles EXCEPT ![angle_index + 1] = AngleRecord(ions, i, j, k)]
                  /\ angle_index' = angle_index + 1
                  /\ i' = next.i /\ j' = next.j /\ k' = next.k
                  /\ pc' = IF next.done THEN "ba_exit" ELSE "ba_loop"
                  /\ UNCHANGED status
        ELSE /\ i' = next.i /\ j' = next.j /\ k' = next.k
             /\ pc' = IF next.done THEN "ba_exit" ELSE "ba_loop"
             /\ UNCHANGED << angles, angle_index, status >>
  /\ UNCHANGED << mainVars, ions, bond_lengths, n_uniques, bond_angles_res, oop >>

\* line 155
BondAnglesReturn ==
  /\ pc = "ba_exit"
  /\ bond_angles_res' = Ok(angles)
  /\ pc' = "ba_done"
  /\ UNCHANGED << mainVars, status, ions, bond_lengths,
                  n_uniques, angles, angle_index, i, j, k, oop >>

\* ---- main ----
\* lines 14-15: the for loop takes the next argument and reads the file
MainReadFile ==
  /\ pc = "for_args" /\ argsLeft > 0
  /\ argsLeft' = argsLeft - 1
  /\ \E f \in Files :
       IF file_to_vec(f).ok
       THEN /\ lines' = file_to_vec(f).val /\ pc' = "natoms" /\ UNCHANGED status
       ELSE /\ lines' = << >> /\ Exit("err_open")
  /\ natoms' = -1
  /\ ions' = << >>
  /\ bond_lengths' = NotCalled
  /\ bond_angles_res' = NotCalled
  /\ n_uniques' = 0 /\ angles' = << >> /\ angle_index' = 0
  /\ i' = 0 /\ j' = 0 /\ k' = 0
  /\ UNCHANGED << nargs, oop, stdout >>

\* lines 18-27: the header and the record count
MainCheckCount ==
  /\ pc = "natoms"
  /\ IF Len(lines) = 0
     THEN Exit("panic_index") /\ UNCHANGED natoms
     ELSE IF ~ParseHeaderOk(At(lines, 0))
     THEN Exit("panic_parse") /\ UNCHANGED natoms
     ELSE /\ natoms' = ParseHeader(At(lines, 0))
          /\ IF CountMismatch(lines, ParseHeader(At(lines, 0)))
             THEN Exit("err_count")
             ELSE pc' = "ions" /\ UNCHANGED status
  /\ UNCHANGED << nargs, argsLeft, lines, ions, bond_lengths, baVars, oop, stdout >>

\* lines 31-46
MainParseIons ==
  /\ pc = "ions"
  /\ IF \E n \in 1..(Len(lines) - 1) : ~ParseIonOk(At(lines, n))
     THEN Exit("panic_parse") /\ UNCHANGED ions
     ELSE /\ ions' = [n \in 1..(Len(lines) - 1) |-> ParseIon(At(lines, n))]
          /\ pc' = "lengths" /\ UNCHANGED status
  /\ UNCHANGED << mainVars, bond_lengths, baVars, oop >>

\* line 48: all_bond_lengths(&ions).unwrap()
MainBondLengths ==
  /\ pc = "lengths"
  /\ bond_lengths' = all_bond_lengths(ions)
  /\ IF all_bond_lengths(ions).ok
     THEN pc' = "ba_call" /\ UNCHANGED status
     ELSE Exit("panic_unwrap_lengths")
  /\ UNCHANGED << mainVars, ions, baVars, oop >>

\* line 49: the unwrap() of the bond_angles result; lines 52-55: the output
MainPrint ==
  /\ pc = "ba_done"
  /\ IF bond_angles_res.ok
     THEN /\ stdout' = Append(stdout, [natoms |-> natoms, ions |-> ions,
                                       bond_lengths |-> bond_lengths.val,
                                       bond_angles |-> bond_angles_res.val])
          /\ pc' = "for_args" /\ UNCHANGED status
     ELSE Exit("panic_unwrap_angles") /\ UNCHANGED stdout
  /\ UNCHANGED << nargs, argsLeft, lines, natoms, ions, bond_lengths, baVars, oop >>

\* line 58
MainReturn ==
  /\ pc = "for_args" /\ argsLeft = 0
  /\ Exit("ok")
  /\ UNCHANGED << mainVars, ions, bond_lengths, baVars, oop >>

Init ==
  /\ nargs \in 0..MaxFiles
  /\ argsLeft = nargs
  /\ pc = "for_args"
  /\ status = "running"
  /\ lines = << >>
  /\ natoms = -1
  /\ ions = << >>
  /\ bond_lengths = NotCalled
  /\ n_uniques = 0 /\ angles = << >> /\ angle_index = 0
  /\ i = 0 /\ j = 0 /\ k = 0
  /\ bond_angles_res = NotCalled
  /\ oop = NotCalled
  /\ stdout = << >>

Next ==
  \/ MainReadFile
  \/ MainCheckCount
  \/ MainParseIons
  \/ MainBondLengths
  \/ BondAnglesCall
  \/ BondAnglesWrite
  \/ BondAnglesReturn
  \/ MainPrint
  \/ MainReturn

Spec == Init /\ [][Next]_vars

\* ---- the library functions called on their own ----
\* A caller that holds one atom list and calls the public functions on it,
\* in any order and any number of times.
CoreAllBondLengths ==
  /\ pc = "idle"
  /\ bond_lengths' = all_bond_lengths(ions)
  /\ pc' = "idle"
  /\ UNCHANGED << mainVars, status, ions, baVars, oop >>

CoreBondAngles ==
  /\ pc = "idle"
  /\ pc' = "ba_call"
  /\ UNCHANGED << mainVars, status, ions, bond_lengths, baVars, oop >>

CoreBondAnglesDone ==
  /\ pc = "ba_done"
  /\ pc' = "idle"
  /\ UNCHANGED << mainVars, status, ions, bond_lengths, baVars, oop >>

\* out_of_plane_angle(&mol[0], &mol[1], &mol[2], &mol[3])
CoreOutOfPlane ==
  /\ pc = "idle"
  /\ Len(ions) >= 4
  /\ \E v \in out_of_plane_angle(At(ions, 0), At(ions, 1), At(ions, 2), At(ions, 3)) :
       oop' = Ok(v)
  /\ pc' = "idle"
  /\ UNCHANGED << mainVars, status, ions, bond_lengths, baVars >>

InitCore ==
  /\ nargs = 0
  /\ argsLeft = 0
  /\ pc = "idle"
  /\ status = "running"
  /\ lines = << >>
  /\ natoms = -1
  /\ ions \in SeqsUpTo(Atoms, MaxLen)
  /\ bond_lengths = NotCalled
  /\ n_uniques = 0 /\ angles = << >> /\ angle_index = 0
  /\ i = 0 /\ j = 0 /\ k = 0
  /\ bond_angles_res = NotCalled
  /\ oop = NotCalled
  /\ stdout = << >>

NextCore ==
  \/ CoreAllBondLengths
  \/ CoreBondAngles
  \/ BondAnglesCall
  \/ BondAnglesWrite
  \/ BondAnglesReturn
  \/ CoreBondAnglesDone
  \/ CoreOutOfPlane

SpecCore == InitCore /\ [][NextCore]_vars

\* ---- properties ----
SqDist(p, q) ==
  (p.x - q.x) * (p.x - q.x) + (p.y - q.y) * (p.y - q.y) + (p.z - q.z) * (p.z - q.z)

SamePlace(p, q) == p.x = q.x /\ p.y = q.y /\ p.z = q.z

\* The angle at vertex v between the arms v->p and v->q.
VertexAngle(v, p, q) ==
  IF SamePlace(v, p) \/ SamePlace(v, q) THEN NaN
  ELSE F64("acos",
           (p.x - v.x) * (q.x - v.x) + (p.y - v.y) * (q.y - v.y) + (p.z - v.z) * (q.z - v.z),
           SqDist(v, p), SqDist(v, q))

Subsets3(n) == { S \in SUBSET (0..(n - 1)) : Cardinality(S) = 3 }

\* C1: for an atom list of length n >= 3, bond_angles returns exactly C(n,3)
\* records (k, j, i, angle) with k < j < i, every 3-subset of 0..n-1 is the
\* index set of exactly one record, and the angle of a record is the angle at
\* atom j between the arms to atom i and to atom k.
C1_AllTriplesOnce ==
  (bond_angles_res.called /\ Len(ions) >= 3) =>
    LET recs == bond_angles_res.val
        n == Len(ions)
    IN /\ bond_angles_res.ok
       /\ Len(recs) = Cardinality(Subsets3(n))
       /\ \A p \in 1..Len(recs) :
            /\ 0 <= recs[p][1] /\ recs[p][1] < recs[p][2]
            /\ recs[p][2] < recs[p][3] /\ recs[p][3] < n
            /\ recs[p][4] = VertexAngle(At(ions, recs[p][2]),
                                        At(ions, recs[p][3]), At(ions, recs[p][1]))
       /\ \A S \in Subsets3(n) :
            Cardinality({ p \in 1..Len(recs) : { recs[p][1], recs[p][2], recs[p][3] } = S }) = 1

C1_Witness ==
  /\ bond_angles_res.ok
  /\ Len(ions) = 4
  /\ Len(bond_angles_res.val) = 4
  /\ \E p \in 1..4 : ~IsNaN(bond_angles_res.val[p][4])
  /\ Cardinality({ At(ions, n) : n \in 0..3 }) = 4

\* C2: for an atom list of length n >= 2, all_bond_lengths returns an n x n
\* matrix that is symmetric, has a zero diagonal, and whose off-diagonal
\* entries are the distances between the two atoms.
C2_SymmetricMatrix ==
  (bond_lengths.called /\ Len(ions) >= 2) =>
    LET M == bond_lengths.val
        n == Len(ions)
    IN /\ bond_lengths.ok
       /\ Len(M) = n
       /\ \A r \in 1..n : Len(M[r]) = n
       /\ \A r \in 1..n : M[r][r] = F0
       /\ \A r \in 1..n : \A c \in 1..n : M[r][c] = M[c][r]
       /\ \A r \in 1..n : \A c \in 1..n :
            r # c => M[r][c] = FSqrt(SqDist(ions[r], ions[c]))

C2_Witness ==
  /\ bond_lengths.ok
  /\ Len(ions) = 3
  /\ bond_lengths.val[1][3] = FSqrt(2)
  /\ bond_lengths.val[3][1] = FSqrt(2)
  /\ bond_lengths.val[1][2] = FSqrt(1)

\* C3: all_bond_lengths returns an error exactly when the list has at most
\* one atom, bond_angles exactly when it has at most two; the error carries
\* no matrix and no angle list.
C3_InsufficientAtoms ==
  /\ bond_lengths.called =>
       /\ ~bond_lengths.ok <=> Len(ions) <= 1
       /\ ~bond_lengths.ok => bond_lengths.val = << >>
  /\ bond_angles_res.called =>
       /\ ~bond_angles_res.ok <=> Len(ions) <= 2
       /\ ~bond_angles_res.ok => (bond_angles_res.val = << >> /\ angles = << >>)

C3_Witness ==
  /\ Len(ions) = 2
  /\ bond_lengths.called /\ bond_lengths.ok
  /\ bond_angles_res.called /\ ~bond_angles_res.ok

\* C4: a failure on one input (a record-count mismatch, or an error of
\* all_bond_lengths or bond_angles) does not end the run while later inputs
\* are still unread.
C4_FailureConfined ==
  argsLeft > 0 =>
    status \notin { "err_count", "panic_unwrap_lengths", "panic_unwrap_angles" }

CoincidentTriple(mol, rec) ==
  \/ SamePlace(At(mol, rec[1]), At(mol, rec[2]))
  \/ SamePlace(At(mol, rec[2]), At(mol, rec[3]))
  \/ SamePlace(At(mol, rec[1]), At(mol, rec[3]))

\* C5: bond_angles never returns a success value that holds a NaN angle for
\* a triple in which two atoms have identical coordinates.
C5_NoNaNInSuccess ==
  bond_angles_res.ok =>
    \A p \in 1..Len(bond_angles_res.val) :
      CoincidentTriple(ions, bond_angles_res.val[p]) => ~IsNaN(bond_angles_res.val[p][4])

\* The denominator l_kj * l_kl * l_ki * sin(phi_jkl) is zero: an arm from k
\* has zero length, or j, k, l are collinear (r_kj x r_kl = 0).
ZeroDenominator(pi, pj, pk, pl) ==
  \/ SamePlace(pk, pj) \/ SamePlace(pk, pl) \/ SamePlace(pk, pi)
  \/ /\ (pj.y - pk.y) * (pl.z - pk.z) - (pl.y - pk.y) * (pj.z - pk.z) = 0
     /\ (pj.x - pk.x) * (pl.z - pk.z) - (pl.x - pk.x) * (pj.z - pk.z) = 0
     /\ (pj.x - pk.x) * (pl.y - pk.y) - (pl.x - pk.x) * (pj.y - pk.y) = 0

\* C6: when the denominator of out_of_plane_angle is zero, the call does not
\* return an ordinary numeric value; it surfaces a DegenerateGeometry outcome.
C6_DegenerateSurfaced ==
  (oop.called /\ ZeroDenominator(At(ions, 0), At(ions, 1), At(ions, 2), At(ions, 3)))
    => ~oop.ok

HeaderDeclared == Len(lines) > 0 /\ Len(lines[1]) = 1

\* C7: when the header declares natoms and the number of records supplied
\* by file_to_vec differs, the input ends with the record-count error before any atom is parsed, any
\* bond length or angle is computed or anything is printed for it; when the
\* counts are equal, the record-count error is not raised.
C7_RecordCountMismatch ==
  /\ (HeaderDeclared /\ pc # "natoms" /\ Len(lines) - 1 # lines[1][1]) =>
       /\ pc = "exit" /\ status = "err_count"
       /\ ions = << >>
       /\ ~bond_lengths.called /\ ~bond_angles_res.called /\ angles = << >>
       /\ Len(stdout) = nargs - argsLeft - 1
  /\ status = "err_count" =>
       (HeaderDeclared /\ Len(lines) - 1 # lines[1][1])

C7_Witness ==
  /\ status = "err_count"
  /\ natoms = 3
  /\ Len(lines) - 1 = 2
  /\ Len(stdout) = 1

\* C8: for an input with exactly 2 atoms, the bond-angle computation fails
\* with too few atoms while the bond-length matrix of that input is still
\* delivered to the output.
C8_LengthsStillDelivered ==
  (pc = "exit" /\ Len(ions) = 2 /\ bond_angles_res.called /\ ~bond_angles_res.ok) =>
    /\ Len(stdout) = nargs - argsLeft
    /\ stdout[Len(stdout)].bond_lengths = bond_lengths.val

\* Number of index triples c < b < a < n that the nested loops visit before
\* (a0, b0, c0): those that are smaller in the order (a, then b, then c).
TriplesBefore(n, a0, b0, c0) ==
  Cardinality({ t \in (0..(n - 1)) \X (0..(n - 1)) \X (0..(n - 1)) :
                  /\ t[3] < t[2] /\ t[2] < t[1]
                  /\ \/ t[1] < a0
                     \/ t[1] = a0 /\ t[2] < b0
                     \/ t[1] = a0 /\ t[2] = b0 /\ t[3] < c0 })

\* C9: the records of bond_angles are in nested-loop order (i ascending,
\* then j ascending below i, then k ascending below j): the record at output
\* position p is the p-th triple in that order, so the sequence of index
\* triples depends on the list length only.
C9_EnumerationOrder ==
  bond_angles_res.ok =>
    LET recs == bond_angles_res.val
    IN \A p \in 1..Len(recs) :
         TriplesBefore(Len(ions), recs[p][3], recs[p][2], recs[p][1]) = p - 1

C9_Witness ==
  /\ bond_angles_res.ok
  /\ Len(ions) = 4
  /\ bond_angles_res.val[2][1] = 0 /\ bond_angles_res.val[2][2] = 1
  /\ bond_angles_res.val[2][3] = 3
  /\ bond_angles_res.val[4][1] = 1 /\ bond_angles_res.val[4][2] = 2
  /\ bond_angles_res.val[4][3] = 3

====
